---- MODULE Spec2Model ----
(***************************************************************************)
(* Model of lib_eio/unix/sockopt.c: the table sockopt_int and the two      *)
(* primitives eio_unix_getsockopt_int and eio_unix_setsockopt_int, called  *)
(* by concurrent callers on a small set of socket descriptors.             *)
(***************************************************************************)
EXTENDS Integers, Sequences, FiniteSets, TLC

VARIABLES
  platform,     \* the option macros the platform headers define (fixed at build time)
  sockopt_int,  \* the static table, a sequence of [level, option]
  sock,         \* kernel state: descriptor -> [open, opts]
  pc,           \* position of each caller inside a primitive
  op,           \* "get" or "set": the primitive the caller is in
  vsocket,      \* argument vsocket of the current invocation
  voption,      \* argument voption (already Int_val'ed)
  val,          \* argument val of eio_unix_setsockopt_int (0 for get)
  opt,          \* the descriptor read through the local pointer opt
  res,          \* what the invocation returned (or raised)
  auxLog,       \* the caml_unix_*_aux calls made by the current invocation
  lookups,      \* number of reads of sockopt_int made by the current invocation
  lastSet,      \* per (socket, index): the value last set through it, if known
  nsets,        \* invocations of eio_unix_setsockopt_int started so far
  crashed       \* TRUE once an out-of-bounds read has trapped the process

vars == <<platform, sockopt_int, sock, pc, op, vsocket, voption, val, opt, res,
          auxLog, lookups, lastSet, nsets, crashed>>

----------------------------------------------------------------------------
\* Bounds of the model.

\* The number of invocations of eio_unix_setsockopt_int in a behaviour; the
\* invocations of eio_unix_getsockopt_int are not bounded.
MaxSets == 2

\* The callers. Under Spec caller 1 alone invokes the primitives, one after the
\* other; under SpecConcurrent both do, once each, their steps interleaved.
Callers == {1, 2}

\* The values passed as val: off, on, and a value a boolean option does not keep.
Values == {0, 1, 2}

----------------------------------------------------------------------------
\* Platform constants.

\* The values <netinet/in.h> and <netinet/tcp.h> give the names the table uses
\* (Linux numbering), where the platform defines them.
Header ==
  [IPPROTO_TCP |-> 6, TCP_NODELAY |-> 1, TCP_CORK |-> 3, TCP_KEEPIDLE |-> 4,
   TCP_KEEPINTVL |-> 5, TCP_KEEPCNT |-> 6, TCP_DEFER_ACCEPT |-> 9]

\* The fallback every #ifndef block substitutes.
Unavailable == -1

\* 1, /* TYPE_INT */
TYPE_INT == 1

AllOptions ==
  {"TCP_CORK", "TCP_KEEPCNT", "TCP_KEEPIDLE", "TCP_KEEPINTVL",
   "TCP_DEFER_ACCEPT", "TCP_NODELAY"}

\* Builds: every macro defined (Linux), only those a BSD-style <netinet/tcp.h>
\* brought in by another header defines, and none (no <netinet/tcp.h>).
Platforms ==
  {AllOptions, {"TCP_NODELAY", "TCP_KEEPCNT", "TCP_KEEPINTVL"}, {}}

\* #ifndef X / #define X (-1) / #endif
Macro(defined, name) == IF name \in defined THEN Header[name] ELSE Unavailable

\* Mutant: the first and the last initializer exchanged.
OptionOrderSwapped ==
  <<"TCP_NODELAY", "TCP_KEEPCNT", "TCP_KEEPIDLE", "TCP_KEEPINTVL",
    "TCP_DEFER_ACCEPT", "TCP_CORK">>

\* The order of the initializers of sockopt_int.
OptionOrder ==
  <<"TCP_CORK", "TCP_KEEPCNT", "TCP_KEEPIDLE", "TCP_KEEPINTVL",
    "TCP_DEFER_ACCEPT", "TCP_NODELAY">>

\* static struct socket_option sockopt_int[] = { { IPPROTO_TCP, TCP_CORK }, ... }
Table(defined) ==
  [k \in 1..Len(OptionOrder) |->
     [level |-> Header.IPPROTO_TCP, option |-> Macro(defined, OptionOrder[k])]]

----------------------------------------------------------------------------
\* The kernel and the runtime's marshalling routines (external collaborators).

\* Descriptors: 0..2 are open but no sockets, 3 and 4 are open sockets, 5 is
\* closed.
StdioFds == {0, 1, 2}
OpenFds == {3, 4}
ClosedFds == {5}
Handles == OpenFds \cup ClosedFds

Slot(name) == <<Header.IPPROTO_TCP, Header[name]>>
KernelSlots == {Slot(n) : n \in AllOptions}

DefaultOpts ==
  [s \in KernelSlots |->
     CASE s = Slot("TCP_KEEPIDLE") -> 7200
       [] s = Slot("TCP_KEEPINTVL") -> 75
       [] s = Slot("TCP_KEEPCNT") -> 9
       [] OTHER -> 0]

Ok(n) == [tag |-> "Ok", val |-> n, err |-> "none"]
Err(e) == [tag |-> "SystemCallFailure", val |-> 0, err |-> e]
NoRes == [tag |-> "none", val |-> 0, err |-> "none"]

\* What the kernel keeps when asked to store v in slot s.
Stored(s, v) ==
  CASE s \in {Slot("TCP_NODELAY"), Slot("TCP_CORK")} ->
         IF v # 0 THEN 1 ELSE 0
    [] s = Slot("TCP_DEFER_ACCEPT") ->
         IF v <= 0 THEN 0 ELSE IF v = 1 THEN 1 ELSE IF v <= 3 THEN 3 ELSE 7
    [] OTHER -> v

\* Values the kernel rejects with EINVAL.
Rejected(s, v) ==
  s \in {Slot("TCP_KEEPIDLE"), Slot("TCP_KEEPINTVL"), Slot("TCP_KEEPCNT")} /\ v < 1

FdError(k, fd) ==
  IF fd \in StdioFds THEN "ENOTSOCK"
  ELSE IF fd \notin DOMAIN k \/ ~k[fd].open THEN "EBADF"
  ELSE "none"

\* getsockopt(2): the result only; the kernel state is not changed.
getsockopt(k, fd, level, option) ==
  IF FdError(k, fd) # "none" THEN Err(FdError(k, fd))
  ELSE IF <<level, option>> \notin KernelSlots THEN Err("ENOPROTOOPT")
  ELSE Ok(k[fd].opts[<<level, option>>])

\* setsockopt(2): the result and the kernel state after it.
setsockopt(k, fd, level, option, v) ==
  IF FdError(k, fd) # "none" THEN [res |-> Err(FdError(k, fd)), sock |-> k]
  ELSE IF <<level, option>> \notin KernelSlots
    THEN [res |-> Err("ENOPROTOOPT"), sock |-> k]
  ELSE IF Rejected(<<level, option>>, v) THEN [res |-> Err("EINVAL"), sock |-> k]
  ELSE [res |-> Ok(0),
        sock |-> [k EXCEPT ![fd].opts[<<level, option>>] =
                                Stored(<<level, option>>, v)]]

\* caml_unix_getsockopt_aux(name, ty, level, option, socket): getsockopt, uerror on
\* failure, the value marshalled by ty.
caml_unix_getsockopt_aux(k, a) ==
  LET r == getsockopt(k, a.socket, a.level, a.option)
  IN  IF r.tag # "Ok" THEN r
      ELSE IF a.ty = TYPE_INT THEN r
      ELSE Ok(IF r.val # 0 THEN 1 ELSE 0)

\* caml_unix_setsockopt_aux(name, ty, level, option, socket, val).
caml_unix_setsockopt_aux(k, a) ==
  setsockopt(k, a.socket, a.level, a.option, a.val)

----------------------------------------------------------------------------
\* The primitives.

TableSize == Len(sockopt_int)
InRange(i) == 0 <= i /\ i < TableSize
\* The indices callers pass: every index of the table, one below and one past it.
Indices == (-1)..TableSize

NoOpt == [trap |-> FALSE, level |-> 0, option |-> 0]
Entry(e) == [trap |-> FALSE, level |-> e.level, option |-> e.option]

\* What a read past either end of sockopt_int can yield: the bytes of some other
\* object, here another socket-option descriptor of the process or zeroed
\* memory, or a fault.
OutOfBounds ==
  {[trap |-> FALSE, level |-> Header.IPPROTO_TCP, option |-> Header.TCP_NODELAY],
   [trap |-> FALSE, level |-> 0, option |-> 0],
   [trap |-> TRUE, level |-> 0, option |-> 0]}

\* struct socket_option *opt = &(sockopt_int[Int_val(voption)]); and the reads of
\* opt->level, opt->option. No bounds check: an index outside the table is
\* undefined behaviour.
Deref(tbl, i) ==
  IF 0 <= i /\ i < Len(tbl) THEN {Entry(tbl[i + 1])} ELSE OutOfBounds

----------------------------------------------------------------------------
\* The state after construction: the table as compiled for the platform, every
\* socket with the kernel's defaults, no caller inside a primitive.
Init ==
  /\ platform \in Platforms
  /\ sockopt_int = Table(platform)
  /\ sock = [fd \in Handles |-> [open |-> fd \in OpenFds, opts |-> DefaultOpts]]
  /\ pc = [p \in Callers |-> "idle"]
  /\ op = [p \in Callers |-> "get"]
  /\ vsocket = [p \in Callers |-> CHOOSE h \in ClosedFds : TRUE]
  /\ voption = [p \in Callers |-> 0]
  /\ val = [p \in Callers |-> 0]
  /\ opt = [p \in Callers |-> NoOpt]
  /\ res = [p \in Callers |-> NoRes]
  /\ auxLog = [p \in Callers |-> <<>>]
  /\ lookups = [p \in Callers |-> 0]
  /\ lastSet = [h \in OpenFds |-> [i \in 0..(Len(OptionOrder) - 1) |-> {}]]
  /\ nsets = 0
  /\ crashed = FALSE

\* Mutant of Lookup: the set primitive stores val through opt (opt->option = val)
\* while resolving the entry.
LookupWriting(p, o, h, i, v) ==
  /\ ~crashed
  /\ pc[p] \in {"idle", "returned"}
  /\ o = "set" => nsets < MaxSets
  /\ nsets' = IF o = "set" THEN nsets + 1 ELSE nsets
  /\ op' = [op EXCEPT ![p] = o]
  /\ vsocket' = [vsocket EXCEPT ![p] = h]
  /\ voption' = [voption EXCEPT ![p] = i]
  /\ val' = [val EXCEPT ![p] = v]
  /\ res' = [res EXCEPT ![p] = NoRes]
  /\ auxLog' = [auxLog EXCEPT ![p] = <<>>]
  /\ lookups' = [lookups EXCEPT ![p] = 1]
  /\ \E e \in Deref(sockopt_int, i) :
       /\ opt' = [opt EXCEPT ![p] = e]
       /\ pc' = [pc EXCEPT ![p] = IF e.trap THEN "trapped" ELSE "resolved"]
       /\ crashed' = e.trap
  /\ sockopt_int' =
       IF o = "set" /\ 0 <= i /\ i < Len(sockopt_int)
         THEN [sockopt_int EXCEPT ![i + 1].option = v]
         ELSE sockopt_int
  /\ UNCHANGED <<platform, sock, lastSet>>

\* Entry of a primitive with the arguments (h, i, v), and its first statement:
\* the read of the table entry through opt. A fault ends the process.
Lookup(p, o, h, i, v) ==
  /\ ~crashed
  /\ pc[p] \in {"idle", "returned"}
  /\ o = "set" => nsets < MaxSets
  /\ nsets' = IF o = "set" THEN nsets + 1 ELSE nsets
  /\ op' = [op EXCEPT ![p] = o]
  /\ vsocket' = [vsocket EXCEPT ![p] = h]
  /\ voption' = [voption EXCEPT ![p] = i]
  /\ val' = [val EXCEPT ![p] = v]
  /\ res' = [res EXCEPT ![p] = NoRes]
  /\ auxLog' = [auxLog EXCEPT ![p] = <<>>]
  /\ lookups' = [lookups EXCEPT ![p] = 1]
  /\ \E e \in Deref(sockopt_int, i) :
       /\ opt' = [opt EXCEPT ![p] = e]
       /\ pc' = [pc EXCEPT ![p] = IF e.trap THEN "trapped" ELSE "resolved"]
       /\ crashed' = e.trap
  /\ UNCHANGED <<platform, sockopt_int, sock, lastSet>>

\* eio_unix_getsockopt_int(vsocket, voption):
\*   struct socket_option *opt = &(sockopt_int[Int_val(voption)]);
GetLookup(p) == \E h \in Handles, i \in Indices : Lookup(p, "get", h, i, 0)

\* eio_unix_setsockopt_int(vsocket, voption, val):
\*   struct socket_option *opt = &(sockopt_int[Int_val(voption)]);
SetLookup(p) ==
  \E h \in Handles, i \in Indices, v \in Values : Lookup(p, "set", h, i, v)

\* Mutant of GetArgs: the option type one less than TYPE_INT (the boolean type).
GetArgsBool(p) ==
  [name |-> "eio_unix_getsockopt_int", ty |-> TYPE_INT - 1, level |-> opt[p].level,
   option |-> opt[p].option, socket |-> vsocket[p], val |-> 0]

\* The arguments eio_unix_getsockopt_int hands to caml_unix_getsockopt_aux.
GetArgs(p) ==
  [name |-> "eio_unix_getsockopt_int", ty |-> TYPE_INT, level |-> opt[p].level,
   option |-> opt[p].option, socket |-> vsocket[p], val |-> 0]

\* Mutant of SetArgs: the last two arguments, both of type value, exchanged.
SetArgsSwapped(p) ==
  [name |-> "eio_unix_setsockopt_int", ty |-> TYPE_INT, level |-> opt[p].level,
   option |-> opt[p].option, socket |-> val[p], val |-> vsocket[p]]

\* Mutant of SetArgs: the value normalised as a boolean before it is handed over.
SetArgsBool(p) ==
  [name |-> "eio_unix_setsockopt_int", ty |-> TYPE_INT, level |-> opt[p].level,
   option |-> opt[p].option, socket |-> vsocket[p],
   val |-> IF val[p] # 0 THEN 1 ELSE 0]

\* The arguments eio_unix_setsockopt_int hands to caml_unix_setsockopt_aux.
SetArgs(p) ==
  [name |-> "eio_unix_setsockopt_int", ty |-> TYPE_INT, level |-> opt[p].level,
   option |-> opt[p].option, socket |-> vsocket[p], val |-> val[p]]

\* return caml_unix_getsockopt_aux(...): one call, its result (or its exception)
\* is the primitive's.
GetDelegate(p) ==
  /\ ~crashed
  /\ pc[p] = "resolved"
  /\ op[p] = "get"
  /\ res' = [res EXCEPT ![p] = caml_unix_getsockopt_aux(sock, GetArgs(p))]
  /\ auxLog' = [auxLog EXCEPT ![p] = Append(@, GetArgs(p))]
  /\ pc' = [pc EXCEPT ![p] = "returned"]
  /\ UNCHANGED <<platform, sockopt_int, sock, op, vsocket, voption, val, opt,
                 lookups, lastSet, nsets, crashed>>

\* The value of the last set that succeeded through index i on socket h, kept
\* per (h, i); empty when the kernel stored another value than the one given.
Remember(p, r) ==
  IF r.tag = "Ok" /\ InRange(voption[p])
    THEN [lastSet EXCEPT ![vsocket[p]][voption[p]] =
            IF Stored(<<opt[p].level, opt[p].option>>, val[p]) = val[p]
              THEN {val[p]} ELSE {}]
    ELSE lastSet

\* Mutant of SetDelegate: the outcome of the delegated call read the wrong way
\* round, so that a set the kernel applied is reported as a failure.
SetDelegateInverted(p) ==
  /\ ~crashed
  /\ pc[p] = "resolved"
  /\ op[p] = "set"
  /\ LET out == caml_unix_setsockopt_aux(sock, SetArgs(p))
     IN  /\ sock' = out.sock
         /\ res' = [res EXCEPT ![p] =
                      IF out.res.tag = "Ok" THEN Err("EINVAL") ELSE Ok(0)]
         /\ lastSet' = lastSet
  /\ auxLog' = [auxLog EXCEPT ![p] = Append(@, SetArgs(p))]
  /\ pc' = [pc EXCEPT ![p] = "returned"]
  /\ UNCHANGED <<platform, sockopt_int, op, vsocket, voption, val, opt, lookups,
                 nsets, crashed>>

\* return caml_unix_setsockopt_aux(...): one call, its result (or its exception)
\* is the primitive's.
SetDelegate(p) ==
  /\ ~crashed
  /\ pc[p] = "resolved"
  /\ op[p] = "set"
  /\ LET out == caml_unix_setsockopt_aux(sock, SetArgs(p))
     IN  /\ sock' = out.sock
         /\ res' = [res EXCEPT ![p] = out.res]
         /\ lastSet' = Remember(p, out.res)
  /\ auxLog' = [auxLog EXCEPT ![p] = Append(@, SetArgs(p))]
  /\ pc' = [pc EXCEPT ![p] = "returned"]
  /\ UNCHANGED <<platform, sockopt_int, op, vsocket, voption, val, opt, lookups,
                 nsets, crashed>>

\* One caller, invoking the primitives one after the other.
Next ==
  \/ GetLookup(1)
  \/ SetLookup(1)
  \/ GetDelegate(1)
  \/ SetDelegate(1)

\* Concurrent callers, each making one invocation; their steps interleave.
NextConcurrent ==
  \E p \in Callers :
    \/ pc[p] = "idle" /\ GetLookup(p)
    \/ pc[p] = "idle" /\ SetLookup(p)
    \/ GetDelegate(p)
    \/ SetDelegate(p)

SpecConcurrent == Init /\ [][NextConcurrent]_vars

Spec == Init /\ [][Next]_vars

----------------------------------------------------------------------------
\* Properties.

Returned(p) == pc[p] = "returned"
TableEntry(i) == sockopt_int[i + 1]
Available(i) == InRange(i) /\ TableEntry(i).option # Unavailable
EntrySlot(i) == <<TableEntry(i).level, TableEntry(i).option>>

\* C1: a call with an index below 0 or not below the table size fails with
\* OutOfRange and has made no call to caml_unix_getsockopt_aux or
\* caml_unix_setsockopt_aux.
C1_OutOfRangeRejected ==
  \A p \in Callers :
    (Returned(p) /\ ~InRange(voption[p])) =>
      (res[p].tag = "OutOfRange" /\ auxLog[p] = <<>>)

\* C2: a call with an index of the table whose entry holds the sentinel -1 fails
\* with UnsupportedOnPlatform, for get and for set, and has not invoked the
\* syscall layer.
C2_UnavailableRejected ==
  \A p \in Callers :
    (Returned(p) /\ InRange(voption[p]) /\ ~Available(voption[p])) =>
      (res[p].tag = "UnsupportedOnPlatform" /\ auxLog[p] = <<>>)

\* C3: round trip. After set(h, i, v) succeeded through an index i of the table on
\* an open socket h, with v a value the kernel stores as given, and no other set
\* on (h, i) since, get(h, i) returns v.
C3_RoundTrip ==
  \A p \in Callers :
    (/\ Returned(p)
     /\ op[p] = "get"
     /\ InRange(voption[p])
     /\ vsocket[p] \in OpenFds
     /\ lastSet[vsocket[p]][voption[p]] # {}) =>
      \A v \in lastSet[vsocket[p]][voption[p]] : res[p] = Ok(v)

C5_FailureAtomic ==
  [][\A p \in Callers :
       (\/ pc[p] = "resolved" /\ pc'[p] = "returned" /\ res'[p].tag # "Ok"
        \/ pc'[p] = "trapped") =>
         (sock' = sock /\ sockopt_int' = sockopt_int)]_vars

C5_Witness ==
  \E p \in Callers, h \in OpenFds :
    /\ Returned(p)
    /\ op[p] = "set"
    /\ vsocket[p] = h
    /\ res[p] = Err("EINVAL")
    /\ sock[h].opts # DefaultOpts

\* C6: the table is never written: in every state reached by interleaved calls of
\* concurrent callers, every entry of sockopt_int is the (level, option) pair it
\* was initialized with.
C6_TableImmutable ==
  /\ Len(sockopt_int) = Len(Table(platform))
  /\ \A k \in 1..Len(sockopt_int) :
       /\ sockopt_int[k].level = Table(platform)[k].level
       /\ sockopt_int[k].option = Table(platform)[k].option

C6_Witness ==
  \E p \in Callers, q \in Callers :
    /\ p # q
    /\ pc[p] = "resolved"
    /\ op[p] = "get"
    /\ Returned(q)
    /\ op[q] = "set"
    /\ res[q].tag = "Ok"
    /\ voption[p] = voption[q]

\* C7: the value handed to caml_unix_setsockopt_aux by a set through an index of
\* the table is the caller's val, whatever the value; a rejection is the error of
\* the delegated call.
C7_ValueVerbatim ==
  \A p \in Callers :
    (Returned(p) /\ op[p] = "set" /\ InRange(voption[p])) =>
      /\ Len(auxLog[p]) = 1
      /\ auxLog[p][1].val = val[p]
      /\ res[p].tag \in {"Ok", "SystemCallFailure"}

C7_Witness ==
  \E p \in Callers :
    /\ Returned(p)
    /\ op[p] = "set"
    /\ Available(voption[p])
    /\ val[p] = 2
    /\ auxLog[p][1].val = 2
    /\ res[p].tag = "Ok"

\* C8: frame. A get leaves the options of every socket and the table unchanged; a
\* set on (h, i) changes at most the slot that index i of the table names on
\* socket h: no other socket and no other option slot.
C8_Frame ==
  [][\A p \in Callers :
       (pc[p] = "resolved" /\ pc'[p] = "returned") =>
         /\ sockopt_int' = sockopt_int
         /\ op[p] = "get" => sock' = sock
         /\ op[p] = "set" =>
              \A h \in DOMAIN sock, s \in KernelSlots :
                sock'[h].opts[s] # sock[h].opts[s] =>
                  /\ h = vsocket[p]
                  /\ InRange(voption[p])
                  /\ s = EntrySlot(voption[p])]_vars

\* C9: index 0 is TCP_CORK, 1 TCP_KEEPCNT, 2 TCP_KEEPIDLE, 3 TCP_KEEPINTVL,
\* 4 TCP_DEFER_ACCEPT, 5 TCP_NODELAY, each at level IPPROTO_TCP and each either the
\* platform's constant or -1 in that same position; get and set resolve an index
\* of the table to that entry.
C9_IndexMapping ==
  /\ Len(sockopt_int) = 6
  /\ \A k \in 1..Len(sockopt_int) : sockopt_int[k].level = Header.IPPROTO_TCP
  /\ sockopt_int[1].option = Macro(platform, "TCP_CORK")
  /\ sockopt_int[2].option = Macro(platform, "TCP_KEEPCNT")
  /\ sockopt_int[3].option = Macro(platform, "TCP_KEEPIDLE")
  /\ sockopt_int[4].option = Macro(platform, "TCP_KEEPINTVL")
  /\ sockopt_int[5].option = Macro(platform, "TCP_DEFER_ACCEPT")
  /\ sockopt_int[6].option = Macro(platform, "TCP_NODELAY")
  /\ \A p \in Callers :
       (pc[p] \in {"resolved", "returned"} /\ InRange(voption[p])) =>
         /\ opt[p].level = TableEntry(voption[p]).level
         /\ opt[p].option = TableEntry(voption[p]).option

C9_Witness ==
  \E p \in Callers, q \in Callers :
    /\ sockopt_int[1].option = Unavailable
    /\ sockopt_int[6].option = Header.TCP_NODELAY
    /\ Returned(p) /\ op[p] = "get" /\ voption[p] = 5
    /\ Returned(q) /\ op[q] = "set" /\ voption[q] = 5
    /\ opt[p] = opt[q]
    /\ opt[p].option = Header.TCP_NODELAY

\* C10: an invocation reads the table once and then makes at most one delegated
\* call, of type TYPE_INT and on the caller's handle; after a failure there is no
\* second call.
C10_OneLookupOneCall ==
  \A p \in Callers :
    /\ pc[p] \in {"resolved", "trapped"} => (lookups[p] = 1 /\ auxLog[p] = <<>>)
    /\ Returned(p) =>
         /\ lookups[p] = 1
         /\ Len(auxLog[p]) = 1
         /\ auxLog[p][1].ty = TYPE_INT
         /\ auxLog[p][1].socket = vsocket[p]
         /\ auxLog[p][1].name =
              (IF op[p] = "get" THEN "eio_unix_getsockopt_int"
               ELSE "eio_unix_setsockopt_int")

C10_Witness ==
  \E p \in Callers :
    /\ Returned(p)
    /\ op[p] = "get"
    /\ res[p].tag = "SystemCallFailure"
    /\ Len(auxLog[p]) = 1
    /\ lookups[p] = 1

====
